---- MODULE Spec2Model ----
(***************************************************************************)
(* Authenticated-request dispatch core of wowapi_py: the blocking client   *)
(* (api.py, Api), the cooperative client (async_api.py, AsyncApi) and the  *)
(* call memoizer of the per-resource accessors (wow_game_data.py,          *)
(* wow_profile_data.py).  The authorization server and the resource server *)
(* are the environment: every response they give is drawn from a small set.*)
(***************************************************************************)
EXTENDS Integers, Sequences, FiniteSets, TLC

\* ------------------------------------------------------------------ bounds
\* The clock advances by TickStep, MaxTicks times.
TickStep == 60
MaxTicks == 2
\* The lifetime (expires_in) of the tokens the authorization server issues.
TokenLife == 180
\* The authorization server issues at most MaxIssued tokens in one behaviour.
MaxIssued == 2

\* --------------------------------------------------------- program constants
\* The safety margin of the expiry test, "<= time() + 60".
SKEW == 60

\* The region list of request().
ValidRegions == {"us", "eu", "tw", "kr", "cn"}

\* The region codes callers pass: a templated-host region, the region with its
\* own hosts, and a code outside the list.
RegionInputs == {"us", "cn", "xx"}

\* The two Api instances of a blocking program, and the AsyncApi instance of a
\* cooperative one.
SyncClients == {"s1", "s2"}
AsyncClients == {"a1"}
Clients == SyncClients \cup AsyncClients

\* ------------------------------------------------------------------- values
\* A Python dict is a function from its keys; {} is the function of no key.
EmptyDict == [k \in {} |-> 0]

\* dict.get(key, default)
Get(d, key, default) == IF key \in DOMAIN d THEN d[key] ELSE default

\* The token document built from an authorization response: the response's
\* fields plus expires_at = time() + expires_in.
NewToken(serial, life, t) ==
    [access_token |-> serial, expires_in |-> life, expires_at |-> t + life]

\* What the authorization server can answer to a client-credentials request
\* made with a credential pair it accepts / it rejects.  A network failure can
\* happen with either.
AuthOk(life) == [kind |-> "ok", expires_in |-> life]
AuthRejected == [kind |-> "rejected", expires_in |-> 0]
AuthNetFail == [kind |-> "netfail", expires_in |-> 0]
NoAuth == [kind |-> "none", expires_in |-> 0]
AuthResponses(good) ==
    IF good THEN {AuthOk(TokenLife), AuthNetFail}
            ELSE {AuthRejected, AuthNetFail}

\* What a send can meet: a response with a status and a body, or a connection
\* failure (status 0, no response).  An undecodable body makes json() raise:
\* for "garbage" a plain ValueError, for "garbage_lib" the transport library's
\* own exception (requests' JSONDecodeError, a RequestException and a
\* ValueError at once; aiohttp's ContentTypeError, a ClientResponseError that
\* carries the response's status).
Resp(status, body) == [status |-> status, body |-> body]
ConnFail == Resp(0, "none")
NoSend == Resp(-1, "none")
SendResponses ==
    {Resp(200, "json"), Resp(200, "garbage"), Resp(200, "garbage_lib"),
     Resp(401, "json"), Resp(404, "json"), Resp(429, "json"), Resp(500, "json"),
     ConnFail}

\* Response.raise_for_status(): an error for 4xx and 5xx.
RaisesForStatus(r) == r.status >= 400 /\ r.status < 600

\* ------------------------------------------------------- memoization keys
\* repr() of a str argument (no argument of the model holds a quote).
Repr(s) == "'" \o s \o "'"

RECURSIVE Join(_, _)
\* sep.join(parts)
Join(parts, sep) ==
    IF Len(parts) = 0 THEN ""
    ELSE IF Len(parts) = 1 THEN parts[1]
    ELSE parts[1] \o sep \o Join(Tail(parts), sep)

\* str() of a tuple of str arguments: "()", "('a',)", "('a', 'b')".
StrTuple(args) ==
    IF Len(args) = 1 THEN "(" \o Repr(args[1]) \o ",)"
    ELSE "(" \o Join([i \in 1..Len(args) |-> Repr(args[i])], ", ") \o ")"

\* Named arguments are a sequence of <<name, value>> pairs in the order the
\* call site wrote them (a dict keeps insertion order).
\* str() of the dict: "{}", "{'k': 'v', 'j': 'w'}".
StrDict(kw) ==
    "{" \o Join([i \in 1..Len(kw) |-> Repr(kw[i][1]) \o ": " \o Repr(kw[i][2])], ", ")
        \o "}"

\* The alphabetical rank of the keyword names the accessors use.
KwNames == <<"namespace", "orderby", "page">>
KwRank(name) == CHOOSE i \in 1..Len(KwNames) : KwNames[i] = name

\* sorted(kwargs.items()): the pairs by ascending name (names are unique).
SortedItems(kw) ==
    IF Len(kw) = 0 THEN kw
    ELSE CHOOSE s \in [1..Len(kw) -> {kw[i] : i \in 1..Len(kw)}] :
            /\ \A i \in 1..Len(kw) : \E j \in 1..Len(kw) : s[j] = kw[i]
            /\ \A i, j \in 1..Len(kw) : i < j => KwRank(s[i][1]) < KwRank(s[j][1])

\* str() of a list of pairs: "[]", "[('k', 'v')]".
StrItems(items) ==
    "[" \o Join([i \in 1..Len(items) |->
                    "(" \o Repr(items[i][1]) \o ", " \o Repr(items[i][2]) \o ")"], ", ")
        \o "]"

\* api.py: key = str(args) + str(sorted(kwargs.items()))
ApiCacheKey(args, kw) == StrTuple(args) \o StrItems(SortedItems(kw))

\* A key built from the positional arguments alone.
DataCacheKey_ArgsOnly(args, kw) == StrTuple(args)

\* wow_game_data.py, wow_profile_data.py: key = str(args) + str(kwargs)
DataCacheKey(args, kw) == StrTuple(args) \o StrDict(kw)

\* The key request() reaches the token table with: it calls
\* get_client_credentials_token(region), one positional argument.
TokenKey == [region \in RegionInputs |-> ApiCacheKey(<<region>>, <<>>)]

\* ---------------------------------------------------- blocking client (Api)
\* Results of the steps of a call: the client's token slot, the table of
\* method_cache around get_client_credentials_token, the number of tokens
\* the server has issued, the value returned, the exception raised ("none"
\* when the step returned), and whether the token endpoint was contacted.
StepResult(tok, cch, serial, ret, err, fetched) ==
    [token |-> tok, cache |-> cch, issued |-> serial, ret |-> ret, err |-> err,
     fetched |-> fetched]

\* Api.get_client_credentials_token, the decorated function's body: one
\* fetch_token against the token endpoint.  An OAuth2Error becomes
\* AuthenticationError; a transport failure of fetch_token is no OAuth2Error
\* and leaves the function as it is.
get_client_credentials_token(tok, cch, serial, region, resp, t) ==
    IF resp.kind = "ok"
    THEN LET new == NewToken(serial + 1, resp.expires_in, t)
         IN  StepResult(new, cch, serial + 1, new, "none", 1)
    ELSE IF resp.kind = "rejected"
    THEN StepResult(tok, cch, serial, EmptyDict, "AuthenticationError", 1)
    ELSE StepResult(tok, cch, serial, EmptyDict, "ConnectionError", 1)

\* method_cache's wrapper around it: a key already in the table returns the
\* stored value without running the function; otherwise the function runs and,
\* when it returns, its value is stored.  The table belongs to the decorated
\* function, so every Api instance of the process reads and writes the same one.
cached_get_client_credentials_token(tok, cch, serial, region, resp, t) ==
    LET key == TokenKey[region]
    IN  IF key \in DOMAIN cch
        THEN StepResult(tok, cch, serial, cch[key], "none", 0)
        ELSE LET r == get_client_credentials_token(tok, cch, serial, region, resp, t)
             IN  IF r.err = "none"
                 THEN [r EXCEPT !.cache = (key :> r.ret) @@ cch]
                 ELSE r

\* An expiry test with the comparison turned round.
NeedsToken_Inverted(tok, t) == tok = EmptyDict \/ Get(tok, "expires_at", 0) > t + SKEW

\* The expiry test of request(): no token, or expires_at <= time() + 60.
NeedsToken(tok, t) == tok = EmptyDict \/ Get(tok, "expires_at", 0) <= t + SKEW

\* What a finished call leaves: the client's token slot, the token table, the
\* server's issue count, how the call ended ("payload" or the class of the
\* exception that reached the caller), the token-endpoint requests and the
\* sends it made, and the access token each send carried (0: no such send).
CallResult(tok, cch, serial, outcome, fetches, sends, bearer1, bearer2) ==
    [token |-> tok, cache |-> cch, issued |-> serial, outcome |-> outcome,
     fetches |-> fetches, sends |-> sends, bearer1 |-> bearer1, bearer2 |-> bearer2]

\* A classification of the first send without the 404 and 429 branches.
ApiClassifyFirst_NoBranches(s1) ==
    IF s1 = ConnFail THEN "ApiConnectionError"
    ELSE IF RaisesForStatus(s1) THEN "BlizzardApiException"
    ELSE IF s1.body = "json" THEN "payload"
    ELSE IF s1.body = "garbage_lib" THEN "ApiConnectionError"
    ELSE "InvalidResponseError"

\* The except clauses of Api.request for what the first send met.  s1 is not
\* a 401 here.  The clauses are tried in order: HTTPError, RequestException,
\* ValueError.
ApiClassifyFirst(s1) ==
    IF s1 = ConnFail THEN "ApiConnectionError"
    ELSE IF RaisesForStatus(s1)
    THEN IF s1.status = 404 THEN "ResourceNotFoundError"
         ELSE IF s1.status = 429 THEN "RateLimitError"
         ELSE "BlizzardApiException"
    ELSE IF s1.body = "json" THEN "payload"
    ELSE IF s1.body = "garbage_lib" THEN "ApiConnectionError"
    ELSE "InvalidResponseError"

\* A retry that returns None where the body of the retried response does not
\* decode.
ApiRetryOutcome_SwallowsDecode(s2) ==
    IF s2 = ConnFail THEN "ConnectionError"
    ELSE IF RaisesForStatus(s2) THEN "HTTPError"
    ELSE "payload"

\* The retried send runs inside the "except HTTPError" clause, where no
\* except clause of the same try statement applies any more: whatever it
\* raises reaches the caller as raised.
ApiRetryOutcome(s2) ==
    IF s2 = ConnFail THEN "ConnectionError"
    ELSE IF RaisesForStatus(s2) THEN "HTTPError"
    ELSE IF s2.body = "json" THEN "payload"
    ELSE "JSONDecodeError"

\* Api.request past the region test: sc gives what the servers answer to
\* the token request before the send (a1), to the first send (s1), to the
\* token request after a 401 (a2) and to the retried send (s2), each used only
\* if the call gets there.  t is time().
Api_dispatch(tok, cch, serial, region, sc, t) ==
    LET g1 == IF NeedsToken(tok, t)
              THEN cached_get_client_credentials_token(tok, cch, serial, region, sc.a1, t)
              ELSE StepResult(tok, cch, serial, tok, "none", 0)
        tok1 == g1.ret   \* self.token = self.get_client_credentials_token(region)
    IN  IF g1.err # "none"
        THEN CallResult(g1.token, g1.cache, g1.issued, g1.err, g1.fetched, 0, 0, 0)
        ELSE
        IF sc.s1.status # 401
        THEN CallResult(tok1, g1.cache, g1.issued, ApiClassifyFirst(sc.s1),
                        g1.fetched, 1, tok1.access_token, 0)
        ELSE
        LET g2 == cached_get_client_credentials_token(tok1, g1.cache, g1.issued,
                                                      region, sc.a2, t)
            tok2 == g2.ret
        IN  IF g2.err # "none"
            THEN CallResult(g2.token, g2.cache, g2.issued, g2.err,
                            g1.fetched + g2.fetched, 1, tok1.access_token, 0)
            ELSE CallResult(tok2, g2.cache, g2.issued, ApiRetryOutcome(sc.s2),
                            g1.fetched + g2.fetched, 2, tok1.access_token,
                            tok2.access_token)

\* A request() that tests the region only after the dispatch has run.
Api_request_LateRegionTest(tok, cch, serial, region, sc, t) ==
    LET r == Api_dispatch(tok, cch, serial, region, sc, t)
    IN  IF region \notin ValidRegions
        THEN [r EXCEPT !.outcome = "InvalidRegionError"]
        ELSE r

\* Api.request(method, resource, region): the region test comes first and
\* raises InvalidRegionError before anything else runs.
Api_request(tok, cch, serial, region, sc, t) ==
    IF region \notin ValidRegions
    THEN CallResult(tok, cch, serial, "InvalidRegionError", 0, 0, 0, 0)
    ELSE Api_dispatch(tok, cch, serial, region, sc, t)

\* An __exit__ that also empties the token slot.
Api_exit_DropsToken(tok) == [token |-> EmptyDict, closed |-> TRUE]

\* Api.__exit__: self.session.close() and nothing else; the token slot is as
\* it was.
Api_exit(tok) == [token |-> tok, closed |-> TRUE]

\* A request on a session that was closed opens its connections again: the
\* instances in cl after client c made the requests of the call that left r.
Reopened(cl, c, r) == IF r.fetches + r.sends > 0 THEN cl \ {c} ELSE cl

\* ------------------------------------------------ cooperative client (AsyncApi)
\* A _refresh_token that is suspended between storing the response document
\* and adding expires_at to it.
refresh_token_FieldByField(tok, serial, resp, t) ==
    IF resp.kind = "ok"
    THEN [token |-> [access_token |-> serial + 1, expires_in |-> resp.expires_in],
          issued |-> serial + 1, err |-> "none"]
    ELSE IF resp.kind = "rejected"
    THEN [token |-> tok, issued |-> serial, err |-> "AuthenticationError"]
    ELSE [token |-> tok, issued |-> serial, err |-> "ClientConnectorError"]

\* AsyncApi._refresh_token once the token endpoint has answered: the token
\* slot is replaced by the response document and expires_at is added, with no
\* suspension between the two assignments.  raise_for_status() turns a
\* rejection into ClientResponseError, which becomes AuthenticationError; a
\* transport failure of the POST is a ClientError of another class and leaves
\* the function as it is.
refresh_token(tok, serial, resp, t) ==
    IF resp.kind = "ok"
    THEN [token |-> NewToken(serial + 1, resp.expires_in, t), issued |-> serial + 1,
          err |-> "none"]
    ELSE IF resp.kind = "rejected"
    THEN [token |-> tok, issued |-> serial, err |-> "AuthenticationError"]
    ELSE [token |-> tok, issued |-> serial, err |-> "ClientConnectorError"]

\* A classification with "except aiohttp.ClientError" tried first: every
\* ClientResponseError is a ClientError, so no status is looked at.
AsyncClassify_ClientErrorFirst(r) ==
    IF r = ConnFail \/ RaisesForStatus(r) \/ r.body = "garbage_lib"
    THEN "ApiConnectionError"
    ELSE IF r.body = "json" THEN "payload"
    ELSE "InvalidResponseError"

\* The except clauses of AsyncApi.request for what a send met, tried in order:
\* ClientResponseError (by status), ClientError, ValueError.
AsyncClassify(r) ==
    IF r = ConnFail THEN "ApiConnectionError"
    ELSE IF RaisesForStatus(r)
    THEN IF r.status = 401 THEN "AuthenticationError"
         ELSE IF r.status = 404 THEN "ResourceNotFoundError"
         ELSE IF r.status = 429 THEN "RateLimitError"
         ELSE "BlizzardApiException"
    ELSE IF r.body = "json" THEN "payload"
    ELSE IF r.body = "garbage_lib" THEN "BlizzardApiException"
    ELSE "InvalidResponseError"

\* A token-request failure inside the try statement (the refresh after a 401):
\* AuthenticationError passes the except clauses, any other ClientError is
\* caught by "except aiohttp.ClientError".
AsyncRefreshErrorInTry(err) ==
    IF err = "AuthenticationError" THEN err ELSE "ApiConnectionError"

\* AsyncApi.request run to its end with no other coroutine scheduled in
\* between, on an open session: the same steps as the step actions below take
\* one await at a time.  The first _refresh_token is awaited outside the try
\* statement, so its failure leaves request() as raised.
AsyncApi_request(tok, cch, serial, region, sc, t) ==
    IF region \notin ValidRegions
    THEN CallResult(tok, cch, serial, "InvalidRegionError", 0, 0, 0, 0)
    ELSE
    LET need == NeedsToken(tok, t)
        f1 == IF need THEN 1 ELSE 0
        g1 == IF need THEN refresh_token(tok, serial, sc.a1, t)
                      ELSE [token |-> tok, issued |-> serial, err |-> "none"]
    IN  IF g1.err # "none"
        THEN CallResult(g1.token, cch, g1.issued, g1.err, f1, 0, 0, 0)
        ELSE
        IF sc.s1.status # 401
        THEN CallResult(g1.token, cch, g1.issued, AsyncClassify(sc.s1), f1, 1,
                        g1.token.access_token, 0)
        ELSE
        LET g2 == refresh_token(g1.token, g1.issued, sc.a2, t)
        IN  IF g2.err # "none"
            THEN CallResult(g2.token, cch, g2.issued, AsyncRefreshErrorInTry(g2.err),
                            f1 + 1, 1, g1.token.access_token, 0)
            ELSE CallResult(g2.token, cch, g2.issued, AsyncClassify(sc.s2),
                            f1 + 1, 2, g1.token.access_token, g2.token.access_token)

\* --------------------------------- accessors (WowGameDataApi, WowProfileDataApi)
\* An argument list of _get_data: the positional arguments <<resource, region,
\* locale>> and the named ones.
ArgList(resource, region, locale, kw) ==
    [args |-> <<resource, region, locale>>, kw |-> kw]

\* The argument lists callers pass: a base list, lists that differ from it in
\* one component each (resource, region, locale, named arguments), two lists
\* with the same named arguments in the two orders, and one with an invalid
\* region.
ArgLists ==
    {ArgList("/a", "us", "en_US", <<>>),
     ArgList("/b", "us", "en_US", <<>>),
     ArgList("/a", "cn", "en_US", <<>>),
     ArgList("/a", "us", "de_DE", <<>>),
     ArgList("/a", "us", "en_US", <<<<"namespace", "static-us">>, <<"page", "2">>>>),
     ArgList("/a", "us", "en_US", <<<<"page", "2">>, <<"namespace", "static-us">>>>),
     ArgList("/a", "xx", "en_US", <<>>)}

\* The key of each argument list in the table of _get_data.
DataKey == [al \in ArgLists |-> DataCacheKey(al.args, al.kw)]

\* The document the resource server holds for a request: it depends on the
\* resource, the region and the query parameters {"locale": locale, **kwargs},
\* a mapping in which order plays no part.
Payload(al) ==
    [resource |-> al.args[1], region |-> al.args[2],
     params |-> {<<"locale", al.args[3]>>} \cup {al.kw[i] : i \in 1..Len(al.kw)}]
NoPayload == [resource |-> "none", region |-> "none", params |-> {}]

\* A wrapper that runs Api.get every time and stores nothing.
get_data_NoStore(mem, tok, cch, serial, al, sc, t) ==
    LET r == Api_request(tok, cch, serial, al.args[2], sc, t)
    IN  [memo |-> mem, hit |-> FALSE,
         value |-> IF r.outcome = "payload" THEN Payload(al) ELSE NoPayload,
         call |-> r]

\* A wrapper that stores under the key whatever the run of Api.get left, a
\* failure included.
get_data_StoresFailure(mem, tok, cch, serial, al, sc, t) ==
    LET key == DataKey[al]
    IN  IF key \in DOMAIN mem
        THEN [memo |-> mem, hit |-> TRUE, value |-> mem[key],
              call |-> CallResult(tok, cch, serial, "payload", 0, 0, 0, 0)]
        ELSE LET r == Api_request(tok, cch, serial, al.args[2], sc, t)
                 v == IF r.outcome = "payload" THEN Payload(al) ELSE NoPayload
             IN  [memo |-> (key :> v) @@ mem, hit |-> FALSE, value |-> v, call |-> r]

\* A wrapper that serves an entry only while the instance's token passes the
\* expiry test, and runs Api.get otherwise.
get_data_InvalidatedByToken(mem, tok, cch, serial, al, sc, t) ==
    LET key == DataKey[al]
    IN  IF key \in DOMAIN mem /\ ~NeedsToken(tok, t)
        THEN [memo |-> mem, hit |-> TRUE, value |-> mem[key],
              call |-> CallResult(tok, cch, serial, "payload", 0, 0, 0, 0)]
        ELSE LET r == Api_request(tok, cch, serial, al.args[2], sc, t)
             IN  IF r.outcome = "payload"
                 THEN [memo |-> (key :> Payload(al)) @@ mem, hit |-> FALSE,
                       value |-> Payload(al), call |-> r]
                 ELSE [memo |-> mem, hit |-> FALSE, value |-> NoPayload, call |-> r]

\* A wrapper whose table keeps the latest document alone: a store drops the
\* entries that were there.
get_data_KeepsLatestOnly(mem, tok, cch, serial, al, sc, t) ==
    LET key == DataKey[al]
    IN  IF key \in DOMAIN mem
        THEN [memo |-> mem, hit |-> TRUE, value |-> mem[key],
              call |-> CallResult(tok, cch, serial, "payload", 0, 0, 0, 0)]
        ELSE LET r == Api_request(tok, cch, serial, al.args[2], sc, t)
             IN  IF r.outcome = "payload"
                 THEN [memo |-> (key :> Payload(al)), hit |-> FALSE,
                       value |-> Payload(al), call |-> r]
                 ELSE [memo |-> mem, hit |-> FALSE, value |-> NoPayload, call |-> r]

\* _get_data under method_cache: mem is the table of the decorated _get_data
\* (one table for all instances of the class), tok the token slot of the
\* instance's Api.  A key in the table returns the stored value and runs
\* nothing; otherwise Api.get runs and, when it returns, the document is
\* stored under the key; an exception leaves the wrapper before the store.
get_data(mem, tok, cch, serial, al, sc, t) ==
    LET key == DataKey[al]
    IN  IF key \in DOMAIN mem
        THEN [memo |-> mem, hit |-> TRUE, value |-> mem[key],
              call |-> CallResult(tok, cch, serial, "payload", 0, 0, 0, 0)]
        ELSE LET r == Api_request(tok, cch, serial, al.args[2], sc, t)
             IN  IF r.outcome = "payload"
                 THEN [memo |-> (key :> Payload(al)) @@ mem, hit |-> FALSE,
                       value |-> Payload(al), call |-> r]
                 ELSE [memo |-> mem, hit |-> FALSE, value |-> NoPayload, call |-> r]

\* ------------------------------------------------------------------- state
VARIABLES
    program,   \* which layer the process drives: "blocking" or "regions"
               \* (Api.request), "cooperative" (AsyncApi.request), "accessors"
               \* (_get_data of the accessor classes, each over its own Api)
               \* or "pair" (an Api and an AsyncApi given the same calls)
    now,       \* time()
    cred,      \* per client: does the authorization server accept its pair
    token,     \* per client: self.token
    cache,     \* the table of method_cache(get_client_credentials_token)
    issued,    \* tokens issued so far; the next access token is issued + 1
    last,      \* the call of the blocking client that has just ended, until
               \* its caller has taken the result (NoCall otherwise)
    session,   \* AsyncApi.session: "none", "open" or "closed"
    closed,    \* the Api instances whose session.close() has run and that have
               \* used the session for no request since
    calls,     \* the calls in flight on the AsyncApi instance, by slot
    memo,      \* the table of method_cache(_get_data)
    mlast,     \* the _get_data call that has just ended, until its caller
               \* has taken the result (NoDataCall otherwise)
    dispatched, \* per argument list: the Api.get runs that returned a document
    owner,     \* per entry of the table of _get_data: the instance whose call
               \* stored it
    prev       \* history kept in the program "regions", which calls Api
               \* instances for one region after another: per Api instance,
               \* the region argument of its latest request() ("none" before
               \* the first)

vars == <<program, now, cred, token, cache, issued, last, session, closed, calls,
          memo, mlast, dispatched, owner, prev>>
accessorVars == <<memo, mlast, dispatched, owner>>

\* The table of _get_data holds at most MaxMemo entries in one behaviour.
MaxMemo == 2

\* The two accessor instances and the Api each of them owns.
Accessors == {"g1", "g2"}
ApiOf(g) == IF g = "g1" THEN "s1" ELSE "s2"

\* Two calls can be in flight on the AsyncApi instance at one time.
Slots == {1, 2}

\* What the servers answer to the requests of one call: to the token request
\* before the first send (a1), to the first send (s1), to the token request
\* after a 401 (a2) and to the retried send (s2); NoAuth and NoSend stand for
\* a request the call never made.
Script(a1, s1, a2, s2) == [a1 |-> a1, s1 |-> s1, a2 |-> a2, s2 |-> s2]
Consumed(sc, r, g1fetch) ==
    Script(IF g1fetch THEN sc.a1 ELSE NoAuth,
           IF r.sends >= 1 THEN sc.s1 ELSE NoSend,
           IF r.fetches > (IF g1fetch THEN 1 ELSE 0) THEN sc.a2 ELSE NoAuth,
           IF r.sends = 2 THEN sc.s2 ELSE NoSend)

\* The answers as a call's record keeps them: the kind of each token answer
\* and each send's response.
Seen(sc) == [a1 |-> sc.a1.kind, s1 |-> sc.s1, a2 |-> sc.a2.kind, s2 |-> sc.s2]
NoScript == Seen(Script(NoAuth, NoSend, NoAuth, NoSend))

\* The token slot as the expiry test of a call starting at t sees it.
TokenState(tok, t) ==
    IF tok = EmptyDict THEN "empty"
    ELSE IF tok.expires_at > t + SKEW THEN "valid" ELSE "expired"

\* Api.api_url / api_url_cn and AsyncApi.api_url / api_url_cn: the same two
\* templates in both clients.
api_url(region, resource) == "https://" \o region \o ".api.blizzard.com" \o resource
api_url_cn(resource) == "https://gateway.battlenet.com.cn" \o resource

\* Api._format_url and AsyncApi._format_url.
Api_format_url(resource, region) ==
    IF region = "cn" THEN api_url_cn(resource) ELSE api_url(region, resource)
AsyncApi_format_url(resource, region) ==
    IF region = "cn" THEN api_url_cn(resource) ELSE api_url(region, resource)

\* The address get_client_credentials_token posts to: Api.token_url_cn for
\* cn, otherwise Api.token_url, which has no region in it.
Api_token_url(region) ==
    IF region = "cn" THEN "https://www.battlenet.com.cn/oauth/token"
    ELSE "https://oauth.battle.net/token"

\* The address AsyncApi._refresh_token posts to: oauth_url_cn for cn,
\* otherwise oauth_url with the region substituted.
AsyncApi_token_url(region) ==
    IF region = "cn" THEN "https://www.battlenet.com.cn/oauth/token"
    ELSE "https://" \o region \o ".battle.net/oauth/token"

\* The resource path the calls of the programs ask for.
ResourcePath == "/data/wow/token/index"

\* The addresses a call by client c for a region uses; a call refused for its
\* region formats none.
RequestUrl(c, region) ==
    IF region \notin ValidRegions THEN "none"
    ELSE IF c \in SyncClients THEN Api_format_url(ResourcePath, region)
    ELSE AsyncApi_format_url(ResourcePath, region)
TokenUrl(c, region) ==
    IF region \notin ValidRegions THEN "none"
    ELSE IF c \in SyncClients THEN Api_token_url(region)
    ELSE AsyncApi_token_url(region)

\* The record of a call: where it stands (pc: "idle" for none; "fetch1",
\* "send1", "fetch2", "send2" while the named request is outstanding; "done"
\* once it ended), the client and region, what the expiry test saw when the
\* call started, whether the token table had the region's key then (blocking
\* client), the answers it got, how it ended, the requests it made, the
\* access tokens its sends carried, and the addresses of its sends and of its
\* token requests.
Call(pc, c, region, start, cached, sc, outcome, fetches, sends, b1, b2) ==
    [pc |-> pc, client |-> c, region |-> region, start |-> start, cached |-> cached,
     sc |-> sc, outcome |-> outcome, fetches |-> fetches, sends |-> sends,
     bearer1 |-> b1, bearer2 |-> b2,
     url |-> RequestUrl(c, region), token_url |-> TokenUrl(c, region)]
NoCall ==
    Call("idle", "none", "none", "empty", FALSE, NoScript, "none", 0, 0, 0, 0)

\* The record of a _get_data call: the instance, the argument list, whether
\* the key was in the table, how the call ended, the value it returned and
\* the token requests and sends made during it.
DataCall(g, al, hit, outcome, value, fetches, sends) ==
    [inst |-> g, al |-> al, hit |-> hit, outcome |-> outcome, value |-> value,
     fetches |-> fetches, sends |-> sends]
NoDataCall ==
    DataCall("none", ArgList("", "", "", <<>>), FALSE, "none", NoPayload, 0, 0)

\* The blocking program has two Api instances, one with an accepted and one
\* with a rejected credential pair.
InitBlocking ==
    /\ program = "blocking"
    /\ cred = [c \in Clients |-> c # "s2"]

\* The accessor program has two accessor instances over such Api instances.
InitAccessors ==
    /\ program = "accessors"
    /\ cred = [c \in Clients |-> c # "s2"]

\* The cooperative program has one AsyncApi instance.
InitCooperative ==
    /\ program = "cooperative"
    /\ cred \in [Clients -> BOOLEAN]
    /\ \A c \in SyncClients : cred[c] = (c # "s2")

\* The state after construction: no token, empty tables, no session.
Constructed ==
    /\ now = 0
    /\ token = [c \in Clients |-> EmptyDict]
    /\ cache = EmptyDict
    /\ issued = 0
    /\ last = NoCall
    /\ session = "none"
    /\ closed = {}
    /\ calls = [i \in Slots |-> NoCall]
    /\ memo = EmptyDict
    /\ mlast = NoDataCall
    /\ dispatched = EmptyDict
    /\ owner = EmptyDict
    /\ prev = [c \in SyncClients |-> "none"]

Init == (InitBlocking \/ InitCooperative) /\ Constructed

\* Time passes: between the calls of the blocking client, and at any moment
\* (every await is a suspension point) for the cooperative one.
Tick ==
    /\ program # "accessors"
    /\ last = NoCall
    /\ \A i \in DOMAIN calls : calls[i].pc \notin {"done", "cancelled"}
    /\ now + TickStep <= MaxTicks * TickStep
    /\ now' = now + TickStep
    /\ UNCHANGED <<program, cred, token, cache, issued, last, session, closed, prev, calls, accessorVars>>

\* The responses one Api.request asks the servers for, given the state it
\* starts in: a token request only when the expiry test fails and the token
\* table has no entry for the region, a send only after the token step
\* returned, a second token request and a retried send only after a 401.
Fetches1(c, region) ==
    /\ region \in ValidRegions
    /\ NeedsToken(token[c], now)
    /\ TokenKey[region] \notin DOMAIN cache
Fetches2(c, region, a1, s1) ==
    /\ s1.status = 401
    /\ a1.kind # "ok"
    /\ TokenKey[region] \notin DOMAIN cache
ApiAuth1(c, region) ==
    IF Fetches1(c, region) THEN AuthResponses(cred[c]) ELSE {NoAuth}
ApiSend1(c, region, a1) ==
    IF region \in ValidRegions /\ a1.kind \in {"ok", "none"}
    THEN SendResponses ELSE {NoSend}
ApiAuth2(c, region, a1, s1) ==
    IF Fetches2(c, region, a1, s1) THEN AuthResponses(cred[c]) ELSE {NoAuth}
ApiSend2(s1, a2) ==
    IF s1.status = 401 /\ a2.kind \in {"ok", "none"} THEN SendResponses ELSE {NoSend}

\* A caller runs Api.request on client c to its end.
ApiCall(c, region, sc) ==
    /\ program \in {"blocking", "regions"}
    /\ last = NoCall
    /\ \E r \in {Api_request(token[c], cache, issued, region, sc, now)} :
           /\ r.issued <= MaxIssued
           /\ sc = Consumed(sc, r, Fetches1(c, region))
           /\ token' = [token EXCEPT ![c] = r.token]
           /\ cache' = r.cache
           /\ issued' = r.issued
           /\ last' = Call("done", c, region, TokenState(token[c], now),
                           TokenKey[region] \in DOMAIN cache,
                           Seen(sc), r.outcome,
                           r.fetches, r.sends, r.bearer1, r.bearer2)
           /\ closed' = Reopened(closed, c, r)
    /\ prev' = IF program = "regions" THEN [prev EXCEPT ![c] = region] ELSE prev
    /\ UNCHANGED <<program, now, cred, session, calls, accessorVars>>

\* Api.__exit__ on client c.
ApiExit(c) ==
    /\ program \in {"blocking", "regions"}
    /\ last = NoCall
    /\ c \notin closed
    /\ \E x \in {Api_exit(token[c])} :
           /\ token' = [token EXCEPT ![c] = x.token]
           /\ closed' = IF x.closed THEN closed \cup {c} ELSE closed
    /\ UNCHANGED <<program, now, cred, cache, issued, last, session, calls, accessorVars,
                   prev>>

\* The caller takes the result of the call that ended.
ApiReturn ==
    /\ program \in {"blocking", "regions"}
    /\ last # NoCall
    /\ last' = NoCall
    /\ UNCHANGED <<program, now, cred, token, cache, issued, session, closed, prev, calls, accessorVars>>

\* The dispatch calls that have ended, of either client.
Ended == {k \in {last} \cup {calls[i] : i \in Slots} : k.pc = "done"}

\* ---- accessors
\* A caller runs _get_data on accessor g to its end.  On a miss the Api of g
\* runs one request against the servers' answers sc.
GetData(g, al, sc) ==
    /\ program = "accessors"
    /\ mlast = NoDataCall
    /\ DataKey[al] \notin DOMAIN memo
          => Cardinality(DOMAIN memo) < MaxMemo
    /\ \E d \in {get_data(memo, token[ApiOf(g)], cache, issued, al, sc, now)} :
           /\ d.call.issued <= MaxIssued
           /\ sc = Consumed(sc, d.call, ~d.hit /\ Fetches1(ApiOf(g), al.args[2]))
           /\ memo' = d.memo
           /\ token' = [token EXCEPT ![ApiOf(g)] = d.call.token]
           /\ cache' = d.call.cache
           /\ issued' = d.call.issued
           /\ mlast' = DataCall(g, al, d.hit, d.call.outcome, d.value,
                                d.call.fetches, d.call.sends)
           /\ dispatched' =
                 IF ~d.hit /\ d.call.outcome = "payload"
                 THEN (al :> Get(dispatched, al, 0) + 1) @@ dispatched
                 ELSE dispatched
           /\ owner' = [key \in DOMAIN d.memo |->
                           IF key \in DOMAIN owner THEN owner[key] ELSE g]
           /\ closed' = Reopened(closed, ApiOf(g), d.call)
    /\ UNCHANGED <<program, now, cred, last, session, calls, prev>>

\* __exit__ of the accessor g: it calls the __exit__ of its Api.
AccessorExit(g) ==
    /\ program = "accessors"
    /\ mlast = NoDataCall
    /\ ApiOf(g) \notin closed
    /\ \E x \in {Api_exit(token[ApiOf(g)])} :
           /\ token' = [token EXCEPT ![ApiOf(g)] = x.token]
           /\ closed' = IF x.closed THEN closed \cup {ApiOf(g)} ELSE closed
    /\ UNCHANGED <<program, now, cred, cache, issued, last, session, calls, accessorVars,
                   prev>>

\* A long pause between two accessor calls: the clock moves on by the whole
\* horizon, past the lifetime of every token issued before.
LongPause ==
    /\ program = "accessors"
    /\ mlast = NoDataCall
    /\ now + MaxTicks * TickStep <= MaxTicks * TickStep
    /\ now' = now + MaxTicks * TickStep
    /\ UNCHANGED <<program, cred, token, cache, issued, last, session, closed, prev, calls,
                   accessorVars>>

\* The caller takes the result of the _get_data call that ended.
GetDataReturn ==
    /\ program = "accessors"
    /\ mlast # NoDataCall
    /\ mlast' = NoDataCall
    /\ UNCHANGED <<program, now, cred, token, cache, issued, last, session, closed, prev, calls,
                   memo, dispatched, owner>>

\* ---- AsyncApi
\* Token requests outstanding on the AsyncApi instance.
InFlightFetches == Cardinality({i \in Slots : calls[i].pc \in {"fetch1", "fetch2"}})
InFlight == {i \in Slots : calls[i].pc \notin {"idle", "done", "cancelled"}}
\* A call that ended hands its result to the awaiting caller before anything
\* else runs.
NoneEnded == last = NoCall /\ \A i \in Slots : calls[i].pc \notin {"done", "cancelled"}

\* What using self.session raises when it is not an open ClientSession:
\* None has no attribute post/request; a closed session refuses the request.
SessionError == IF session = "none" THEN "AttributeError" ELSE "RuntimeError"

\* An __aenter__ that makes a new ClientSession every time, whatever the
\* instance holds.
aenter_AlwaysNew(s) == [session |-> "open", created |-> TRUE]

\* The body of AsyncApi.__aenter__ on an instance whose session is s: a new
\* ClientSession is made and stored when there is none or the one there is
\* closed; an open one is left in place.
aenter(s) ==
    IF s = "none" \/ s = "closed"
    THEN [session |-> "open", created |-> TRUE]
    ELSE [session |-> s, created |-> FALSE]

\* An __aexit__ that drops the session it closed.
aexit_DropsSession(s) ==
    IF s # "none" /\ s # "closed"
    THEN [session |-> "none", closes |-> TRUE]
    ELSE [session |-> s, closes |-> FALSE]

\* The body of AsyncApi.__aexit__: session.close() when there is a session
\* and it is not closed; nothing otherwise.
aexit(s) ==
    IF s # "none" /\ s # "closed"
    THEN [session |-> "closed", closes |-> TRUE]
    ELSE [session |-> s, closes |-> FALSE]

\* AsyncApi.__aenter__.
AEnter ==
    /\ program \in {"cooperative", "pair"}
    /\ NoneEnded
    /\ session' = aenter(session).session
    /\ UNCHANGED <<program, now, cred, token, cache, issued, last, closed, prev, calls, accessorVars>>

\* AsyncApi.__aexit__.  The exit of the "async with" block runs when the
\* calls of its body have ended.
AExit ==
    /\ program = "cooperative"
    /\ NoneEnded
    /\ InFlight = {}
    /\ session' = aexit(session).session
    /\ UNCHANGED <<program, now, cred, token, cache, issued, last, closed, prev, calls, accessorVars>>

\* A request() whose requests go out whatever the state of the session.
AsyncStart_AnySession(c, i, region) ==
    /\ program = "cooperative"
    /\ NoneEnded
    /\ calls[i].pc = "idle"
    /\ \A j \in Slots : j < i => calls[j].pc # "idle"
    /\ LET begun(pc, outcome, f, n, b1) ==
               Call(pc, c, region, TokenState(token[c], now), FALSE, NoScript,
                    outcome, f, n, b1, 0)
       IN  calls' = [calls EXCEPT ![i] =
               IF region \notin ValidRegions
               THEN begun("done", "InvalidRegionError", 0, 0, 0)
               ELSE IF NeedsToken(token[c], now)
               THEN begun("fetch1", "none", 1, 0, 0)
               ELSE begun("send1", "none", 0, 1, token[c].access_token)]
    /\ (region \in ValidRegions /\ NeedsToken(token[c], now))
          => issued + InFlightFetches < MaxIssued
    /\ UNCHANGED <<program, now, cred, token, cache, issued, last, session, closed, prev, accessorVars>>

\* A request() that starts its token request only when no other call of the
\* instance has one outstanding.
AsyncStart_Serialized(c, i, region) ==
    /\ program = "cooperative"
    /\ NoneEnded
    /\ calls[i].pc = "idle"
    /\ \A j \in Slots : j < i => calls[j].pc # "idle"
    /\ LET begun(pc, outcome, f, n, b1) ==
               Call(pc, c, region, TokenState(token[c], now), FALSE, NoScript,
                    outcome, f, n, b1, 0)
       IN  calls' = [calls EXCEPT ![i] =
               IF region \notin ValidRegions
               THEN begun("done", "InvalidRegionError", 0, 0, 0)
               ELSE IF session # "open"
               THEN begun("done", SessionError, 0, 0, 0)
               ELSE IF NeedsToken(token[c], now)
               THEN begun("fetch1", "none", 1, 0, 0)
               ELSE begun("send1", "none", 0, 1, token[c].access_token)]
    /\ (region \in ValidRegions /\ session = "open" /\ NeedsToken(token[c], now))
          => (issued + InFlightFetches < MaxIssued /\ InFlightFetches = 0)
    /\ UNCHANGED <<program, now, cred, token, cache, issued, last, session, closed, prev, accessorVars>>

\* AsyncApi.request from its call to its first suspension: the region test,
\* the expiry test, and then either the token request or the first send.
AsyncStart(c, i, region) ==
    /\ program = "cooperative"
    /\ NoneEnded
    /\ calls[i].pc = "idle"
    /\ \A j \in Slots : j < i => calls[j].pc # "idle"
    /\ LET begun(pc, outcome, f, n, b1) ==
               Call(pc, c, region, TokenState(token[c], now), FALSE, NoScript,
                    outcome, f, n, b1, 0)
       IN  calls' = [calls EXCEPT ![i] =
               IF region \notin ValidRegions
               THEN begun("done", "InvalidRegionError", 0, 0, 0)
               ELSE IF session # "open"
               THEN begun("done", SessionError, 0, 0, 0)
               ELSE IF NeedsToken(token[c], now)
               THEN begun("fetch1", "none", 1, 0, 0)
               ELSE begun("send1", "none", 0, 1, token[c].access_token)]
    /\ (region \in ValidRegions /\ session = "open" /\ NeedsToken(token[c], now))
          => issued + InFlightFetches < MaxIssued
    /\ UNCHANGED <<program, now, cred, token, cache, issued, last, session, closed, prev, accessorVars>>

\* The token endpoint answers the request made before the first send
\* (request() line 111, outside the try statement): on success the token slot
\* is replaced and the first send goes out with the slot's access token.
AsyncFetch1Done(c, i, resp) ==
    /\ program = "cooperative"
    /\ NoneEnded
    /\ calls[i].pc = "fetch1" /\ calls[i].client = c
    /\ \E r \in {refresh_token(token[c], issued, resp, now)} :
        /\ token' = [token EXCEPT ![c] = r.token]
        /\ issued' = r.issued
        /\ calls' = [calls EXCEPT ![i] =
              IF r.err # "none"
              THEN [@ EXCEPT !.pc = "done", !.outcome = r.err, !.sc.a1 = resp.kind]
              ELSE [@ EXCEPT !.pc = "send1", !.sc.a1 = resp.kind, !.sends = 1,
                             !.bearer1 = r.token.access_token]]
    /\ UNCHANGED <<program, now, cred, cache, last, session, closed, prev, accessorVars>>

\* The first send is answered: a 401 starts the refresh, anything else ends
\* the call with the payload or the classified error.
AsyncSend1Done(c, i, resp) ==
    /\ program = "cooperative"
    /\ NoneEnded
    /\ calls[i].pc = "send1" /\ calls[i].client = c
    /\ resp.status = 401 => issued + InFlightFetches < MaxIssued
    /\ calls' = [calls EXCEPT ![i] =
          IF resp.status = 401
          THEN [@ EXCEPT !.pc = "fetch2", !.sc.s1 = resp, !.fetches = @ + 1]
          ELSE [@ EXCEPT !.pc = "done", !.sc.s1 = resp,
                         !.outcome = AsyncClassify(resp)]]
    /\ UNCHANGED <<program, now, cred, token, cache, issued, last, session, closed, prev, accessorVars>>

\* The token endpoint answers the refresh made after a 401 (line 121, inside
\* the try statement): on success the retried send goes out.
AsyncFetch2Done(c, i, resp) ==
    /\ program = "cooperative"
    /\ NoneEnded
    /\ calls[i].pc = "fetch2" /\ calls[i].client = c
    /\ \E r \in {refresh_token(token[c], issued, resp, now)} :
        /\ token' = [token EXCEPT ![c] = r.token]
        /\ issued' = r.issued
        /\ calls' = [calls EXCEPT ![i] =
              IF r.err # "none"
              THEN [@ EXCEPT !.pc = "done", !.sc.a2 = resp.kind,
                             !.outcome = AsyncRefreshErrorInTry(r.err)]
              ELSE [@ EXCEPT !.pc = "send2", !.sc.a2 = resp.kind, !.sends = 2,
                             !.bearer2 = r.token.access_token]]
    /\ UNCHANGED <<program, now, cred, cache, last, session, closed, prev, accessorVars>>

\* A request() that sends once more when the retried send is answered 401.
AsyncSend2Done_SendsAgain(c, i, resp) ==
    /\ program = "cooperative"
    /\ NoneEnded
    /\ calls[i].pc = "send2" /\ calls[i].client = c
    /\ calls' = [calls EXCEPT ![i] =
          IF resp.status = 401 /\ calls[i].sends < 3
          THEN [@ EXCEPT !.sends = @ + 1]
          ELSE [@ EXCEPT !.pc = "done", !.sc.s2 = resp, !.outcome = AsyncClassify(resp)]]
    /\ UNCHANGED <<program, now, cred, token, cache, issued, last, session, closed, prev, accessorVars>>

\* The retried send is answered: the call ends.
AsyncSend2Done(c, i, resp) ==
    /\ program = "cooperative"
    /\ NoneEnded
    /\ calls[i].pc = "send2" /\ calls[i].client = c
    /\ calls' = [calls EXCEPT ![i] =
          [@ EXCEPT !.pc = "done", !.sc.s2 = resp, !.outcome = AsyncClassify(resp)]]
    /\ UNCHANGED <<program, now, cred, token, cache, issued, last, session, closed, prev, accessorVars>>

\* The caller abandons a call that is suspended at one of its awaits:
\* CancelledError is raised at the await, so nothing after it runs; an
\* assignment whose right-hand side is the await ("self.token = await ...")
\* does not take place.
AsyncCancel(i) ==
    /\ program = "cooperative"
    /\ NoneEnded
    /\ calls[i].pc \in {"fetch1", "send1", "fetch2", "send2"}
    /\ calls' = [calls EXCEPT ![i] =
                    [@ EXCEPT !.pc = "cancelled", !.outcome = "CancelledError"]]
    /\ UNCHANGED <<program, now, cred, token, cache, issued, last, session, closed, prev, accessorVars>>

\* The awaiting caller takes the result of a call that ended.
AsyncReturn(i) ==
    /\ program = "cooperative"
    /\ calls[i].pc \in {"done", "cancelled"}
    /\ calls' = [calls EXCEPT ![i] = NoCall]
    /\ UNCHANGED <<program, now, cred, token, cache, issued, last, session, closed, prev, accessorVars>>

Next ==
    \/ Tick
    \/ ApiReturn
    \/ \E c \in SyncClients : ApiExit(c)
    \/ \E c \in SyncClients, region \in RegionInputs :
         \E a1 \in ApiAuth1(c, region) : \E s1 \in ApiSend1(c, region, a1) :
         \E a2 \in ApiAuth2(c, region, a1, s1) : \E s2 \in ApiSend2(s1, a2) :
            ApiCall(c, region, Script(a1, s1, a2, s2))
    \/ AEnter
    \/ AExit
    \/ \E c \in AsyncClients, i \in Slots :
         \/ \E region \in RegionInputs : AsyncStart(c, i, region)
         \/ \E resp \in AuthResponses(cred[c]) : AsyncFetch1Done(c, i, resp)
         \/ \E resp \in SendResponses : AsyncSend1Done(c, i, resp)
         \/ \E resp \in AuthResponses(cred[c]) : AsyncFetch2Done(c, i, resp)
         \/ \E resp \in SendResponses : AsyncSend2Done(c, i, resp)
         \/ AsyncCancel(i)
         \/ AsyncReturn(i)

Spec == Init /\ [][Next]_vars

\* Every network operation returns or fails: the request a call in flight is
\* waiting for is answered in the end, and a caller takes the result of a call
\* that ended.
Responds(i) ==
    \E c \in AsyncClients :
       \/ \E resp \in AuthResponses(cred[c]) :
             AsyncFetch1Done(c, i, resp) \/ AsyncFetch2Done(c, i, resp)
       \/ \E resp \in SendResponses :
             AsyncSend1Done(c, i, resp) \/ AsyncSend2Done(c, i, resp)

Fairness ==
    /\ WF_vars(ApiReturn)
    /\ \A i \in Slots : SF_vars(Responds(i)) /\ WF_vars(AsyncReturn(i))

SpecLive == Init /\ [][Next]_vars /\ Fairness

\* The program that calls the Api instances for one region after another and
\* keeps, per instance, the region of its latest call.
InitSwitching ==
    /\ program = "regions"
    /\ cred = [c \in Clients |-> c # "s2"]

InitRegions == InitSwitching /\ Constructed

NextRegions ==
    \/ Tick
    \/ ApiReturn
    \/ \E c \in SyncClients : ApiExit(c)
    \/ \E c \in SyncClients, region \in RegionInputs :
         \E a1 \in ApiAuth1(c, region) : \E s1 \in ApiSend1(c, region, a1) :
         \E a2 \in ApiAuth2(c, region, a1, s1) : \E s2 \in ApiSend2(s1, a2) :
            ApiCall(c, region, Script(a1, s1, a2, s2))

SpecRegions == InitRegions /\ [][NextRegions]_vars

\* The accessor program: _get_data calls on the two accessor instances.
InitData == InitAccessors /\ Constructed

\* The _get_data calls with an argument list of lists: a call whose key is in
\* the table meets no server, any other meets the answers its Api asks for.
DataCalls(lists) ==
    \E g \in Accessors, al \in lists :
       \/ /\ DataKey[al] \in DOMAIN memo
          /\ GetData(g, al, Script(NoAuth, NoSend, NoAuth, NoSend))
       \/ /\ DataKey[al] \notin DOMAIN memo
          /\ \E a1 \in ApiAuth1(ApiOf(g), al.args[2]) :
             \E s1 \in ApiSend1(ApiOf(g), al.args[2], a1) :
             \E a2 \in ApiAuth2(ApiOf(g), al.args[2], a1, s1) :
             \E s2 \in ApiSend2(s1, a2) :
                GetData(g, al, Script(a1, s1, a2, s2))

NextData ==
    \/ LongPause
    \/ GetDataReturn
    \/ DataCalls(ArgLists)

SpecData == InitData /\ [][NextData]_vars

\* The programs that also close their clients: the accessors, over two
\* argument lists, with their __exit__; the Api with its __exit__; the
\* AsyncApi with __aenter__ and __aexit__.
CloseArgLists ==
    {ArgList("/a", "us", "en_US", <<>>), ArgList("/a", "cn", "en_US", <<>>)}

InitClose == (InitAccessors \/ InitBlocking \/ InitCooperative) /\ Constructed

NextClose ==
    \/ Next
    \/ LongPause
    \/ GetDataReturn
    \/ DataCalls(CloseArgLists)
    \/ \E g \in Accessors : AccessorExit(g)

SpecClose == InitClose /\ [][NextClose]_vars

\* ---- the two dispatchers side by side
\* One Api (s1) and one AsyncApi (a1) are given the same calls at the same
\* times, and each server answers both with the same sequence of responses:
\* auth is what the authorization server answers to a client's first and
\* second token request of the call, send what the resource server answers
\* to its first and second send.
InitSideBySide ==
    /\ program = "pair"
    /\ cred = [c \in Clients |-> c # "s2"]

InitPair == InitSideBySide /\ Constructed

PairAuthResponses == {AuthOk(TokenLife), AuthRejected, AuthNetFail}

\* The script a dispatcher meets: its token request after a 401 gets the
\* second answer of the authorization server only if it made a token request
\* before the first send.
PairScript(auth, send, fetchedFirst) ==
    Script(auth[1], send[1], IF fetchedFirst THEN auth[2] ELSE auth[1], send[2])

PairCall(region, auth, send) ==
    /\ program = "pair"
    /\ session = "open"
    /\ last = NoCall /\ calls[1] = NoCall
    /\ \E rs \in {Api_request(token["s1"], cache, issued, region,
                               PairScript(auth, send, Fetches1("s1", region)), now)} :
       \E ra \in {AsyncApi_request(token["a1"], rs.cache, rs.issued, region,
                                    PairScript(auth, send, NeedsToken(token["a1"], now)),
                                    now)} :
           /\ ra.issued <= 2 * MaxIssued
           /\ token' = [token EXCEPT !["s1"] = rs.token, !["a1"] = ra.token]
           /\ cache' = rs.cache
           /\ issued' = ra.issued
           /\ last' = Call("done", "s1", region, TokenState(token["s1"], now),
                           TokenKey[region] \in DOMAIN cache,
                           Seen(Script(auth[1], send[1], auth[2], send[2])),
                           rs.outcome, rs.fetches, rs.sends, rs.bearer1, rs.bearer2)
           /\ calls' = [calls EXCEPT ![1] =
                           Call("done", "a1", region, TokenState(token["a1"], now),
                                FALSE,
                                Seen(Script(auth[1], send[1], auth[2], send[2])),
                                ra.outcome, ra.fetches, ra.sends, ra.bearer1, ra.bearer2)]
           /\ closed' = Reopened(closed, "s1", rs)
           /\ prev' = prev
    /\ UNCHANGED <<program, now, cred, session, accessorVars>>

\* Both callers take their results.
PairReturn ==
    /\ program = "pair"
    /\ last # NoCall
    /\ last' = NoCall
    /\ calls' = [calls EXCEPT ![1] = NoCall]
    /\ UNCHANGED <<program, now, cred, token, cache, issued, session, closed, prev, accessorVars>>

NextPair ==
    \/ Tick
    \/ AEnter
    \/ PairReturn
    \/ \E region \in RegionInputs :
         \/ /\ region \notin ValidRegions
            /\ PairCall(region, <<NoAuth, NoAuth>>, <<NoSend, NoSend>>)
         \/ /\ region \in ValidRegions
            /\ \E a1 \in PairAuthResponses, s1 \in SendResponses :
                  \/ /\ s1.status # 401
                     /\ PairCall(region, <<a1, NoAuth>>, <<s1, NoSend>>)
                  \/ /\ s1.status = 401
                     /\ \E a2 \in PairAuthResponses, s2 \in SendResponses :
                           PairCall(region, <<a1, a2>>, <<s1, s2>>)

SpecPair == InitPair /\ [][NextPair]_vars

\* ------------------------------------------------------------------ claims
\* The region codes the specification lists.
ListedRegions == {"us", "eu", "tw", "kr", "cn"}

\* A call that found the transport of the AsyncApi unusable (never opened, or
\* closed) ends in one of these.
TransportUnusable(k) == k.outcome \in {"AttributeError", "RuntimeError"}

\* C1: a dispatch call, blocking or cooperative, whose region is not one of
\* us, eu, tw, kr, cn ends in InvalidRegionError and makes no token request
\* and no send, whatever the token slot held; no request of such a call is
\* ever outstanding.
C1_InvalidRegionNoNetwork ==
    /\ \A k \in Ended :
          k.region \notin ListedRegions =>
             /\ k.outcome = "InvalidRegionError"
             /\ k.fetches = 0 /\ k.sends = 0
             /\ k.sc = NoScript
    /\ \A i \in Slots :
          calls[i].pc \in {"fetch1", "send1", "fetch2", "send2"}
             => calls[i].region \in ListedRegions

\* C1 witness: a call with an unlisted region has ended on a client whose
\* token slot held an expired token.
C1_Witness ==
    \E k \in Ended : k.region \notin ListedRegions /\ k.start = "expired"

\* C2: a call that starts with no cached token and whose first send and
\* retried send are both answered 401 has made exactly 2 sends and exactly 2
\* token requests.
C2_TwoSendsTwoFetches ==
    \A k \in Ended :
       (k.start = "empty" /\ k.sc.s1.status = 401 /\ k.sc.s2.status = 401)
          => (k.sends = 2 /\ k.fetches = 2)

\* C3: a call whose first send and retried send are both answered 401 ends in
\* AuthenticationError.
C3_Second401IsAuthenticationError ==
    \A k \in Ended :
       (k.sc.s1.status = 401 /\ k.sc.s2.status = 401)
          => k.outcome = "AuthenticationError"

\* C4: a first send answered 404 ends the call in ResourceNotFoundError, one
\* answered 429 in RateLimitError; in both cases no token request follows the
\* response and no second send is made.
C4_NotFoundAndRateLimit ==
    \A k \in Ended :
       k.sc.s1.status \in {404, 429} =>
          /\ k.outcome = (IF k.sc.s1.status = 404 THEN "ResourceNotFoundError"
                                                  ELSE "RateLimitError")
          /\ k.sc.a2 = "none" /\ k.sc.s2 = NoSend
          /\ k.sends = 1
          /\ k.fetches = (IF k.sc.a1 = "none" THEN 0 ELSE 1)

\* C4 witness: a call whose first send was answered 429 has ended, on a
\* client that had to fetch a token first.
C4_Witness ==
    \E k \in Ended : k.sc.s1.status = 429 /\ k.sc.a1 = "ok"

\* C5: on a client whose credential pair the authorization server rejects, a
\* call with a valid region (the transport usable, the authorization server
\* reachable) ends in AuthenticationError and makes no send.
C5_RejectedPairNoSend ==
    \A k \in Ended :
       (~cred[k.client] /\ k.region \in ListedRegions /\ ~TransportUnusable(k)
          /\ k.sc.a1 # "netfail")
          => (k.outcome = "AuthenticationError" /\ k.sends = 0)

\* A _get_data call starts and ends in this step.
DataCallStep == mlast = NoDataCall /\ mlast' # NoDataCall

\* C6: once _get_data has returned a document for an argument list, every
\* later call with that list, on either instance, returns the stored document
\* and runs no dispatch (no token request, no send); the dispatches that
\* returned a document for one argument list number exactly one.
C6_IdenticalCallServedFromTable ==
    [][(DataCallStep /\ mlast'.al \in DOMAIN dispatched) =>
          /\ mlast'.hit
          /\ mlast'.outcome = "payload"
          /\ mlast'.value = Payload(mlast'.al)
          /\ mlast'.fetches = 0 /\ mlast'.sends = 0
          /\ dispatched' = dispatched
          /\ dispatched[mlast'.al] = 1
          /\ memo' = memo]_vars

\* C6 witness: a call on the second instance has been served the document the
\* first instance's dispatch stored.
C6_Witness ==
    /\ mlast # NoDataCall /\ mlast.hit /\ mlast.inst = "g2"
    /\ mlast.al \in DOMAIN dispatched

\* C7: a _get_data call whose argument list differs from every list a
\* dispatch has returned a document for (in resource, region, locale or a
\* named argument) is not served from the table: it runs the dispatch itself,
\* and what it returns is the document of its own request.
C7_DifferingListsShareNoEntry ==
    [][(DataCallStep /\ mlast'.al \notin DOMAIN dispatched) =>
          /\ ~mlast'.hit
          /\ mlast'.outcome = "payload" =>
                /\ mlast'.value = Payload(mlast'.al)
                /\ mlast'.sends >= 1
                /\ dispatched' = (mlast'.al :> 1) @@ dispatched]_vars

\* C7 witness: with a document stored for the base argument list, a call
\* that differs from it in the named arguments alone has run its own dispatch.
C7_Witness ==
    /\ mlast # NoDataCall /\ ~mlast.hit /\ mlast.outcome = "payload"
    /\ mlast.al.kw # <<>>
    /\ ArgList("/a", "us", "en_US", <<>>) \in DOMAIN dispatched

\* C8: a _get_data call whose dispatch ends in an error, InvalidRegionError
\* included, leaves the table as it was, with no entry under the call's key,
\* so that a call whose key is not in the table runs the dispatch; no entry
\* of the table ever holds anything but a document.
C8_FailureLeavesTableUnchanged ==
    [][/\ (DataCallStep /\ mlast'.outcome # "payload") =>
             /\ memo' = memo
             /\ DataKey[mlast'.al] \notin DOMAIN memo'
             /\ dispatched' = dispatched
       /\ (DataCallStep /\ DataKey[mlast'.al] \notin DOMAIN memo) => ~mlast'.hit
       /\ \A key \in DOMAIN memo' : memo'[key] # NoPayload]_vars

\* C8 witness: a call with an invalid region has ended in InvalidRegionError
\* while the table held a document of an earlier call.
C8_Witness ==
    /\ mlast # NoDataCall /\ mlast.outcome = "InvalidRegionError"
    /\ memo # EmptyDict

\* C9: a call that starts with a token whose expires_at > now + 60 and whose
\* first send is not answered 401 makes no token request; a call makes a
\* token request only if it started with no token or an expired one, or after
\* a 401.
C9_ValidTokenNoFetch ==
    /\ \A k \in Ended :
          /\ (k.start = "valid" /\ k.sc.s1.status # 401) => k.fetches = 0
          /\ k.fetches > 0 => (k.start \in {"empty", "expired"} \/ k.sc.s1.status = 401)
    /\ \A i \in Slots : calls[i].pc = "fetch1" => calls[i].start # "valid"

\* C9 witness: a call that started with a valid token has ended with a
\* document, without a token request.
C9_Witness ==
    \E k \in Ended : k.start = "valid" /\ k.outcome = "payload" /\ k.fetches = 0

\* C10: a call that starts with an expired token (expires_at <= now + 60),
\* reaches the authorization server and is not answered 401, has made exactly
\* one token request, answered with a new token.
C10_ExpiredTokenOneFetch ==
    \A k \in Ended :
       (k.start = "expired" /\ k.region \in ListedRegions /\ ~TransportUnusable(k)
          /\ k.sc.a1 \notin {"rejected", "netfail"} /\ k.sc.s1.status # 401)
          => (k.fetches = 1 /\ k.sc.a1 = "ok")

\* C11: a _get_data call whose key is in the table makes no token request
\* and no send and leaves the token slots, the token table and the issue count
\* as they were, whatever the state of the instance's token (none, expired,
\* replaced); and a step that changes a token slot or the token table removes
\* and changes no entry of the table of _get_data.
C11_HitMakesNoNetworkOperation ==
    [][/\ (DataCallStep /\ DataKey[mlast'.al] \in DOMAIN memo) =>
             /\ mlast'.hit
             /\ mlast'.fetches = 0 /\ mlast'.sends = 0
             /\ mlast'.value = memo[DataKey[mlast'.al]]
             /\ token' = token /\ cache' = cache /\ issued' = issued
       /\ (token' # token \/ cache' # cache) =>
             \A key \in DOMAIN memo : key \in DOMAIN memo' /\ memo'[key] = memo[key]]_vars

\* C11 witness: a call has been served from the table on an instance whose
\* token had expired since the entry was stored.
C11_Witness ==
    /\ mlast # NoDataCall /\ mlast.hit
    /\ TokenState(token[ApiOf(mlast.inst)], now) = "expired"

\* C12: given the same call from the same token state (none, valid or
\* expired) against the same responses of the two servers, Api.request and
\* AsyncApi.request end in the same outcome (a document or the same error)
\* after the same number of token requests and the same number of sends.
C12_SyncAsyncSameResult ==
    (program = "pair" /\ last.pc = "done" /\ calls[1].pc = "done"
        /\ last.start = calls[1].start)
       => /\ last.outcome = calls[1].outcome
          /\ last.fetches = calls[1].fetches
          /\ last.sends = calls[1].sends

\* The exception classes of the package: BlizzardApiException and its six
\* subclasses.
Taxonomy ==
    {"BlizzardApiException", "AuthenticationError", "RateLimitError",
     "ResourceNotFoundError", "InvalidRegionError", "ApiConnectionError",
     "InvalidResponseError"}

\* The response to the last send a call made.
LastSend(k) == IF k.sends = 2 THEN k.sc.s2 ELSE k.sc.s1

\* C13: a dispatch call (on a usable transport) ends with a document or with
\* an exception of the package's classes, whichever step failed: the token
\* request, the first send, the refresh after a 401, the retried send or the
\* decoding of the body.
C13_OutcomeWithinTaxonomy ==
    \A k \in Ended :
       ~TransportUnusable(k) => k.outcome \in {"payload"} \cup Taxonomy

\* C14: a call one of whose sends, the first or the one retried after a 401,
\* met a connection failure ends in ApiConnectionError, and that send is the
\* last one it made.
C14_ConnectionFailureAtAnySend ==
    \A k \in Ended :
       /\ k.sc.s1 = ConnFail => (k.outcome = "ApiConnectionError" /\ k.sends = 1)
       /\ k.sc.s2 = ConnFail => (k.outcome = "ApiConnectionError" /\ k.sends = 2)

\* C15: a call one of whose token requests, the one before the first send or
\* the one after a 401, met a network failure on the way to the authorization
\* server ends in AuthenticationError.
C15_TokenNetworkFailure ==
    \A k \in Ended :
       (k.sc.a1 = "netfail" \/ k.sc.a2 = "netfail") => k.outcome = "AuthenticationError"

\* C16: a first send answered with a status that is neither 2xx nor 401, 404
\* or 429 ends the call in BlizzardApiException itself, with no token request
\* after the response and no second send.
C16_OtherStatusIsGeneric ==
    \A k \in Ended :
       (k.sc.s1.status >= 400 /\ k.sc.s1.status \notin {401, 404, 429}) =>
          /\ k.outcome = "BlizzardApiException"
          /\ k.sc.a2 = "none" /\ k.sc.s2 = NoSend
          /\ k.sends = 1
          /\ k.fetches = (IF k.sc.a1 = "none" THEN 0 ELSE 1)

\* C16 witness: a call that started with a valid token and whose first send
\* was answered 500 has ended.
C16_Witness ==
    \E k \in Ended : k.sc.s1.status = 500 /\ k.start = "valid"

\* C17: a call whose last send was answered 2xx with a body that cannot be
\* decoded ends in InvalidResponseError, whichever exception class the
\* decoding raised.
C17_UndecodableBody ==
    \A k \in Ended :
       (k.sends >= 1 /\ LastSend(k).status = 200 /\ LastSend(k).body # "json")
          => k.outcome = "InvalidResponseError"

\* C18: a _get_data call is served from the table only an entry that a call
\* on the same instance stored; an entry stored through one instance is never
\* returned to a call on another, which runs its own dispatch.
C18_EntriesBelongToInstance ==
    (mlast # NoDataCall /\ mlast.hit) => owner[DataKey[mlast.al]] = mlast.inst

\* A step of __exit__ or __aexit__: a blocking session is closed, or the
\* session of the AsyncApi goes from open to closed.
ExitStep ==
    \/ closed' # closed /\ closed \subseteq closed'
    \/ session = "open" /\ session' = "closed"

\* C19: a step of __exit__ (Api, accessors) or __aexit__ (AsyncApi) changes
\* the transport alone: every token slot, the token table and every entry of
\* the table of _get_data are after the step what they were before it.
C19_ExitKeepsTokenAndEntries ==
    [][ExitStep => (token' = token /\ cache' = cache /\ issued' = issued
                     /\ memo' = memo /\ owner' = owner
                     /\ dispatched' = dispatched)]_vars

\* C19 witness: an accessor has been closed while its Api held a token and
\* the table of _get_data held an entry.
C19_Witness ==
    \E g \in Accessors :
       /\ ApiOf(g) \in closed
       /\ token[ApiOf(g)] # EmptyDict
       /\ memo # EmptyDict

\* A send that did not bring a document: no connection, an error status or a
\* body that does not decode.
SendFailed(r) == r # NoSend /\ r # Resp(200, "json")

\* C20: a call ends with a document only if the last send it made was
\* answered 2xx with a body that decoded, and a second send is made only after
\* a 401 on the first; a failed token request, a failed first send other than
\* a 401, or a failed retried send ends the call in an error.
C20_NoFailureSwallowed ==
    \A k \in Ended :
       /\ k.outcome = "payload" =>
             /\ k.sends >= 1 /\ LastSend(k) = Resp(200, "json")
             /\ k.sc.a1 \in {"none", "ok"} /\ k.sc.a2 \in {"none", "ok"}
       /\ k.sends = 2 => k.sc.s1.status = 401
       /\ k.sends <= 2
       /\ (\/ k.sc.a1 \in {"rejected", "netfail"}
           \/ k.sc.a2 \in {"rejected", "netfail"}
           \/ (SendFailed(k.sc.s1) /\ k.sc.s1.status # 401)
           \/ SendFailed(k.sc.s2))
             => k.outcome # "payload"

\* C20 witness: a call has ended with a document after a 401 on its first
\* send and a retried send.
C20_Witness ==
    \E k \in Ended : k.outcome = "payload" /\ k.sends = 2 /\ k.sc.s1.status = 401

\* C21: the token requests of the AsyncApi are not serialized.  Whenever one
\* call of the instance has its first token request outstanding, the token
\* slot is still missing or expired and another call can start, that call
\* starts a token request of its own for the token it found: two token
\* requests for one expiry.
C21_RefreshesNotSerialized ==
    \A i, j \in Slots :
       (/\ i # j
        /\ calls[i].pc = "fetch1" /\ calls[j].pc = "idle"
        /\ \A h \in Slots : h < j => calls[h].pc # "idle"
        /\ NeedsToken(token[calls[i].client], now)
        /\ NoneEnded
        /\ issued + InFlightFetches < MaxIssued)
          => ENABLED (/\ AsyncStart(calls[i].client, j, calls[i].region)
                      /\ calls'[j].pc = "fetch1"
                      /\ calls'[j].start = TokenState(token[calls[i].client], now)
                      /\ calls'[j].start # "valid")

\* C21 witness: two calls of one AsyncApi instance that both found the token
\* slot empty have their token requests outstanding at the same time.
C21_Witness ==
    /\ calls[1].pc = "fetch1" /\ calls[2].pc = "fetch1"
    /\ calls[1].start = "empty" /\ calls[2].start = "empty"
    /\ calls[1].client = calls[2].client

\* C22: in every state of the cooperative program, so at every await of
\* every call in flight and after every cancellation, the token slot of the
\* AsyncApi is empty or holds a whole token: the access token of a response
\* the server has issued, with expires_in, and expires_at equal to the time
\* of a response plus that expires_in.
C22_TokenSlotWhole ==
    \A c \in AsyncClients :
       \/ token[c] = EmptyDict
       \/ /\ DOMAIN token[c] = {"access_token", "expires_in", "expires_at"}
          /\ token[c].access_token \in 1..issued
          /\ token[c].expires_at - token[c].expires_in \in 0..now

\* C22 witness: a call has been cancelled while its refresh after a 401 was
\* outstanding, and the slot holds the token the call had fetched before.
C22_Witness ==
    \E i \in Slots :
       /\ calls[i].pc = "cancelled" /\ calls[i].sc.s1.status = 401
       /\ calls[i].sends = 1
       /\ token[calls[i].client] # EmptyDict

\* C23: the send retried after a 401 is classified as a first send is: a
\* retry answered 404 ends the call in ResourceNotFoundError, 429 in
\* RateLimitError, another error status other than 401 in
\* BlizzardApiException, and a 2xx with a body that does not decode in
\* InvalidResponseError.
C23_RetryClassifiedAsFirstSend ==
    \A k \in Ended :
       k.sends = 2 =>
          /\ k.sc.s2.status = 404 => k.outcome = "ResourceNotFoundError"
          /\ k.sc.s2.status = 429 => k.outcome = "RateLimitError"
          /\ (k.sc.s2.status >= 400 /\ k.sc.s2.status \notin {401, 404, 429})
                => k.outcome = "BlizzardApiException"
          /\ (k.sc.s2.status = 200 /\ k.sc.s2.body # "json")
                => k.outcome = "InvalidResponseError"

\* C24: a call whose first send is answered 401 makes a token request to the
\* authorization server after the 401, whatever the expiry of the token it
\* holds, and a retried send carries an access token other than the one the
\* first send carried.
C24_RefreshForcedAfter401 ==
    \A k \in Ended :
       k.sc.s1.status = 401 =>
          /\ k.sc.a2 # "none"
          /\ k.sends = 2 => k.bearer2 # k.bearer1

\* The Authorization header of a first send, built at time t from the slot
\* tok: it carries the slot's access token, and the slot's token is valid.
HeaderFromValidToken(bearer, tok, t) ==
    /\ tok # EmptyDict
    /\ bearer = tok.access_token
    /\ tok.expires_at > t + SKEW

\* C25: with every issued token living longer than 60 s, the first send of
\* every call carries the access token of the token the client holds at that
\* moment, and that token has expires_at > now + 60: for a blocking call that
\* made one send, and for a cooperative call at the step that puts its first
\* send on the wire.
C25_FirstSendCarriesValidToken ==
    [][/\ (last = NoCall /\ last'.pc = "done" /\ last'.sends = 1) =>
             HeaderFromValidToken(last'.bearer1, token'[last'.client], now')
       /\ \A i \in Slots :
             (calls[i].pc # "send1" /\ calls'[i].pc = "send1") =>
                HeaderFromValidToken(calls'[i].bearer1, token'[calls'[i].client], now')]_vars

\* The records of all calls, ended or in flight.
AllCalls == {last} \cup {calls[i] : i \in Slots}

\* C26: every call, at every moment, has made at most 2 sends and at most 2
\* token requests, and a second send only after a 401 on the first; and,
\* provided every network operation returns or fails, every call in flight
\* comes to an end.  (Api.request runs to its end in one step: its code has
\* no loop.)
C26_CallsTerminateWithinTwoSends ==
    /\ [](\A k \in AllCalls :
             /\ k.sends <= 2 /\ k.fetches <= 2
             /\ k.sends = 2 => k.sc.s1.status = 401)
    /\ \A i \in Slots : []<>(calls[i].pc \in {"idle", "done", "cancelled"})

\* C26 witness: a cooperative call has ended after 2 token requests and 2
\* sends.
C26_Witness ==
    \E i \in Slots :
       calls[i].pc = "done" /\ calls[i].sends = 2 /\ calls[i].fetches = 2

\* The pair of calls the side-by-side program makes for one region: the
\* blocking client's and the cooperative client's.
BothSides == {last, calls[1]}

\* C27: a send for a listed region goes to gateway.battlenet.com.cn exactly
\* when the region is cn and otherwise to {region}.api.blizzard.com; a token
\* request goes to www.battlenet.com.cn exactly when the region is cn; and the
\* two clients, called for the same region, post their token requests to the
\* same host.
C27_HostsByRegion ==
    /\ \A k \in BothSides :
          (k.pc = "done" /\ k.region \in ListedRegions /\ k.sends > 0) =>
             k.url = "https://"
                        \o (IF k.region = "cn" THEN "gateway.battlenet.com.cn"
                            ELSE k.region \o ".api.blizzard.com")
                        \o ResourcePath
    /\ \A k \in BothSides :
          (k.pc = "done" /\ k.region \in ListedRegions /\ k.fetches > 0) =>
             ((\E path \in {"/token", "/oauth/token"} :
                  k.token_url = "https://www.battlenet.com.cn" \o path)
               <=> k.region = "cn")
    /\ (/\ last.pc = "done" /\ calls[1].pc = "done"
        /\ last.region = calls[1].region /\ last.region \in ListedRegions
        /\ last.fetches > 0 /\ calls[1].fetches > 0)
          => \E host \in {"oauth.battle.net", "www.battlenet.com.cn",
                           last.region \o ".battle.net"} :
                \A k \in BothSides :
                   \E path \in {"/token", "/oauth/token"} :
                      k.token_url = "https://" \o host \o path

\* C28: a call of an Api instance for a listed region other than the region
\* of the instance's previous call makes a token request, even when the call
\* starts with a token that is still valid (expires_at > now + 60).
C28_RefreshOnRegionSwitch ==
    [][(/\ last = NoCall /\ last'.pc = "done"
        /\ last'.region \in ListedRegions
        /\ prev[last'.client] \in ListedRegions \ {last'.region}
        /\ last'.start = "valid")
          => last'.fetches > 0]_vars

\* Two argument lists are argument-equal: the same positional arguments and
\* the same named arguments, whatever the order these were given in.
ArgEqual(a, b) ==
    /\ a.args = b.args
    /\ {a.kw[i] : i \in 1..Len(a.kw)} = {b.kw[i] : i \in 1..Len(b.kw)}

\* C29: argument lists that are argument-equal have the same key once one of
\* them has been dispatched, and the dispatches that returned a document for
\* them are one in total.
C29_KeyDependsOnValuesOnly ==
    \A a, b \in ArgLists :
       (ArgEqual(a, b) /\ a \in DOMAIN dispatched) =>
          /\ DataKey[a] = DataKey[b]
          /\ dispatched[a] + (IF b # a THEN Get(dispatched, b, 0) ELSE 0) <= 1

\* C30: the table of _get_data only grows: whatever step the program takes
\* (a call with any arguments, a call that fails, a token request, an
\* __exit__), every entry of the table is after the step what it was before.
C30_TableOnlyGrows ==
    [][\A key \in DOMAIN memo :
          key \in DOMAIN memo' /\ memo'[key] = memo[key]]_vars

\* C30 witness: with an entry in the table, a later call has failed, a second
\* token has been issued and an Api has been closed.
C30_Witness ==
    /\ memo # EmptyDict
    /\ mlast # NoDataCall /\ ~mlast.hit /\ mlast.outcome # "payload"
    /\ issued >= 2
    /\ closed # {}

\* C31: __aenter__ leaves the AsyncApi with an open session, making a new one
\* exactly when it had none or a closed one; __aexit__ leaves no session open
\* and changes nothing on an instance whose session was never opened or is
\* closed; neither touches the token slot, so that a session opened again
\* after an exit comes with the token the instance had.
C31_SessionLifecycle ==
    /\ [](/\ session \in {"none", "open", "closed"}
          /\ aenter(session).session = "open"
          /\ aenter(session).created <=> session \in {"none", "closed"}
          /\ aexit(session).session =
                (IF session = "open" THEN "closed" ELSE session)
          /\ aexit(session).closes <=> session = "open")
    /\ [][session' # session =>
            /\ token' = token /\ issued' = issued /\ calls' = calls
            /\ \/ session # "open" /\ session' = "open"
               \/ session = "open" /\ session' = "closed"]_vars

\* C31 witness: the session of an AsyncApi that holds a token has been closed
\* by __aexit__, and an __aenter__ from there opens a session with that token
\* retained.
C31_Witness ==
    /\ program = "cooperative"
    /\ session = "closed" /\ token["a1"] # EmptyDict
    /\ ENABLED (AEnter /\ session' = "open" /\ token' = token)

\* C32: an Api instance holds and sends only tokens issued to its own
\* credential pair.  The authorization server issues nothing to a pair it
\* rejects, so an instance with such a pair never holds a token and none of
\* its calls makes a send; and no two Api instances hold the same access
\* token.
C32_TokenFromOwnCredentials ==
    /\ \A c \in SyncClients : ~cred[c] => token[c] = EmptyDict
    /\ \A k \in Ended :
          (k.client \in SyncClients /\ ~cred[k.client]) =>
             (k.sends = 0 /\ k.bearer1 = 0 /\ k.outcome # "payload")
    /\ \A c, d \in SyncClients :
          (c # d /\ token[c] # EmptyDict /\ token[d] # EmptyDict) =>
             token[c].access_token # token[d].access_token

\* C33: a token slot changes only in a step in which a token request of its
\* client succeeds.  A blocking call that made no token request, or whose
\* token requests were rejected or failed, leaves the slot of its client as it
\* was, however the call ends; the slot of the AsyncApi changes only when an
\* outstanding token request of one of its calls is answered with a token.
C33_TokenChangesOnlyOnFetch ==
    [][/\ \A c \in SyncClients :
             token'[c] # token[c] =>
                /\ last = NoCall /\ last'.pc = "done" /\ last'.client = c
                /\ last'.fetches >= 1
                /\ "ok" \in {last'.sc.a1, last'.sc.a2}
       /\ \A c \in AsyncClients :
             token'[c] # token[c] =>
                \E i \in Slots :
                   /\ calls[i].client = c
                   /\ \/ calls[i].pc = "fetch1" /\ calls'[i].pc = "send1"
                      \/ calls[i].pc = "fetch2" /\ calls'[i].pc = "send2"
                   /\ issued' = issued + 1]_vars

====
